---- MODULE Spec2Model ----
(***************************************************************************)
(* Model of script/fetch_prices.py: one batched price request, a lookup    *)
(* loop that turns the parsed response into Decimal prices (or None), and  *)
(* an output loop that scales every price by 10^18 and prints one          *)
(* TokenConfig line per entry of TOKENS.                                   *)
(*                                                                         *)
(* Text is a sequence of one-character strings, an integer coefficient is  *)
(* a sequence of digits 0..9 (most significant first), so that 10^18 and   *)
(* the 50-digit context precision keep their real size.                    *)
(***************************************************************************)
EXTENDS Integers, Sequences, FiniteSets, TLC

VARIABLES tokens, cgIds, pc, url_ids, requestsSent, response, data,
          i, prices, k, output, exception

vars == <<tokens, cgIds, pc, url_ids, requestsSent, response, data,
          i, prices, k, output, exception>>

----------------------------------------------------------------------------
(* The static tables.                                                      *)

TOKENS ==
    << <<"BAT",   "0x02a8db2231f88fee863081aa7baa4b7e3795e84d">>,
       <<"BDX",   "0xc8805760222bd0a26a9cd0517fecd47f8a0f735f">>,
       <<"FIL",   "0x4e248e77ccff9766ec3d836a8219d5dd4b646d1d">>,
       <<"GLM",   "0xec675ef3bd4db1ce1e01990984222636311854d0">>,
       <<"ICP",   "0xb6eb2a1b73bc0d94 02c59c1b092abcec900b3d04">>,
       <<"NEAR",  "0x31d0d71d767ce6b4d92af123476f6db87a4f4249">>,
       <<"NMR",   "0x7ae619fb4025218ba58f0541cc6ebaaefb604769">>,
       <<"SIREN", "0x4221c19e2bebd58a3bc7b8d38c76bdc72644ff9f">>,
       <<"TRAC",  "0x812ce10fb1b923c054c47c0cd93244b45850e6a8">>,
       <<"VANA",  "0x2832bfd3b0141ef7f1452ea1975323153ac0a7c7">>,
       <<"BCH",   "0xbe1e8ce9c2e3125aa4155e360cab1de1d6109239">>,
       <<"COMP",  "0x07c0080711b2e937f32846779ee6c5828b8ab24d">>,
       <<"FRAX",  "0x9babf71cff53a59cbd5aaff768238a60c6ac3f4b">>,
       <<"KAS",   "0x0fe6ef67eff87378f49864e666039387ff8ade4e">>,
       <<"LTC",   "0x0c4ceba4def071a21650e54e598a6602157521cc">>,
       <<"UNI",   "0xf07f3722753db48f1c967d97eefcdd837a247105">>,
       <<"WLFI",  "0x3eefe62cb64e762b2c207a5e901a16e616a0dc7c">>,
       <<"XRP",   "0xef28f15fff0df624c7cafe1fcd59a73f366559ca">>,
       <<"ZEN",   "0xadc745fbaca7d2f6857a19c64f1d0b26094e1033">> >>

COINGECKO_IDS ==
    "BAT"   :> "basic-attention-token" @@
    "BDX"   :> "beldex" @@
    "FIL"   :> "filecoin" @@
    "GLM"   :> "golem" @@
    "ICP"   :> "internet-computer" @@
    "NEAR"  :> "near" @@
    "NMR"   :> "numeraire" @@
    "SIREN" :> "siren" @@
    "TRAC"  :> "origintrail" @@
    "VANA"  :> "vana" @@
    "BCH"   :> "bitcoin-cash" @@
    "COMP"  :> "compound" @@
    "FRAX"  :> "frax" @@
    "KAS"   :> "kaspa" @@
    "LTC"   :> "litecoin" @@
    "UNI"   :> "uniswap" @@
    "WLFI"  :> "world-liberty-financial" @@
    "XRP"   :> "ripple" @@
    "ZEN"   :> "horizen"

\* getcontext().prec
prec == 50

\* the exponent of the scale factor 10**18
ScaleExp == 18

----------------------------------------------------------------------------
(* Text and digits.                                                        *)

DigitChars == <<"0", "1", "2", "3", "4", "5", "6", "7", "8", "9">>

DigitCharSet == {DigitChars[n] : n \in 1..10}

DigitOf(c) == (CHOOSE n \in 1..10 : DigitChars[n] = c) - 1

CharOf(d) == DigitChars[d + 1]

ToDigits(s) == [n \in 1..Len(s) |-> DigitOf(s[n])]

AllDigits(s) == \A n \in 1..Len(s) : s[n] \in DigitCharSet

AllZeros(d) == \A n \in 1..Len(d) : d[n] = 0

Zeros(n) == [m \in 1..n |-> 0]

\* str(int(digits)): the coefficient without leading zeros, "0" for zero
StripZeros(d) ==
    IF AllZeros(d) THEN <<0>>
    ELSE LET nz == CHOOSE n \in 1..Len(d) :
                       d[n] # 0 /\ \A m \in 1..(n - 1) : d[m] = 0
         IN  SubSeq(d, nz, Len(d))

RECURSIVE DigitsValue(_)
DigitsValue(d) ==
    IF d = <<>> THEN 0
    ELSE DigitsValue(SubSeq(d, 1, Len(d) - 1)) * 10 + d[Len(d)]

\* index of the first character of s that is in C, 0 when there is none
FirstIdx(s, C) ==
    IF \E n \in 1..Len(s) : s[n] \in C
    THEN CHOOSE n \in 1..Len(s) :
             s[n] \in C /\ \A m \in 1..(n - 1) : s[m] \notin C
    ELSE 0

Lower(c) ==
    CASE c = "I" -> "i"
      [] c = "N" -> "n"
      [] c = "F" -> "f"
      [] c = "T" -> "t"
      [] c = "Y" -> "y"
      [] c = "A" -> "a"
      [] c = "S" -> "s"
      [] c = "E" -> "e"
      [] OTHER -> c

LowerText(s) == [n \in 1..Len(s) |-> Lower(s[n])]

----------------------------------------------------------------------------
(* Python values of the parsed JSON body.  A usd value is                  *)
(*   [t |-> "str",   s |-> text]   a JSON string                           *)
(*   [t |-> "float", s |-> repr]   a JSON number parsed to a float, named  *)
(*                                 by its repr (json accepts NaN/Infinity) *)
(*   [t |-> "int",   s |-> repr]   a JSON integer                          *)
(*   [t |-> "null",  s |-> <<>>]   JSON null, Python None                  *)

PyStr(s) == [t |-> "str", s |-> s]
PyFloat(s) == [t |-> "float", s |-> s]
PyInt(s) == [t |-> "int", s |-> s]
PyNone == [t |-> "null", s |-> <<>>]

\* str(x)
str(x) ==
    CASE x.t = "str" -> x.s
      [] x.t = "float" -> x.s
      [] x.t = "int" -> x.s
      [] x.t = "null" -> <<"N", "o", "n", "e">>

----------------------------------------------------------------------------
(* decimal.Decimal: sign, coefficient digits, exponent; kind tells a       *)
(* finite number from NaN, sNaN and Infinity.                              *)

Dec(sign, int, exp) == [kind |-> "finite", sign |-> sign, int |-> int, exp |-> exp]

DecSpecial(kind, sign) == [kind |-> kind, sign |-> sign, int |-> <<0>>, exp |-> 0]

\* the value Decimal(text) raises InvalidOperation on
ConversionSyntax == [kind |-> "ConversionSyntax", sign |-> 0, int |-> <<0>>, exp |-> 0]

IsFinite(p) == p.kind = "finite"

\* Decimal(text): [-+]? ( digits [. digits] | . digits ) ( E [-+]? digits )?
\*                | [-+]? Inf(inity)? | [-+]? s?NaN      (letters in any case)
Decimal(s) ==
    LET signed   == Len(s) > 0 /\ s[1] \in {"-", "+"}
        sign     == IF signed /\ s[1] = "-" THEN 1 ELSE 0
        body     == IF signed THEN Tail(s) ELSE s
        low      == LowerText(body)
        e        == FirstIdx(low, {"e"})
        mant     == IF e = 0 THEN body ELSE SubSeq(body, 1, e - 1)
        expt     == IF e = 0 THEN <<>> ELSE SubSeq(body, e + 1, Len(body))
        esigned  == Len(expt) > 0 /\ expt[1] \in {"-", "+"}
        edigits  == IF esigned THEN Tail(expt) ELSE expt
        expOk    == e = 0 \/ (Len(edigits) > 0 /\ AllDigits(edigits))
        expVal   == IF e = 0 THEN 0
                    ELSE (IF esigned /\ expt[1] = "-" THEN -1 ELSE 1)
                         * DigitsValue(ToDigits(edigits))
        dot      == FirstIdx(mant, {"."})
        intpart  == IF dot = 0 THEN mant ELSE SubSeq(mant, 1, dot - 1)
        fracpart == IF dot = 0 THEN <<>> ELSE SubSeq(mant, dot + 1, Len(mant))
        mantOk   == /\ AllDigits(intpart)
                    /\ AllDigits(fracpart)
                    /\ Len(intpart) + Len(fracpart) > 0
    IN  IF low \in {<<"i", "n", "f">>, <<"i", "n", "f", "i", "n", "i", "t", "y">>}
        THEN DecSpecial("Infinity", sign)
        ELSE IF low = <<"n", "a", "n">> THEN DecSpecial("NaN", sign)
        ELSE IF low = <<"s", "n", "a", "n">> THEN DecSpecial("sNaN", sign)
        ELSE IF mantOk /\ expOk
        THEN Dec(sign, StripZeros(ToDigits(intpart \o fracpart)),
                 expVal - Len(fracpart))
        ELSE ConversionSyntax

----------------------------------------------------------------------------
(* Coefficient arithmetic on digit sequences.                              *)

LastDigit(d) == IF d = <<>> THEN 0 ELSE d[Len(d)]

Front(d) == IF d = <<>> THEN <<>> ELSE SubSeq(d, 1, Len(d) - 1)

\* d padded with leading zeros to n digits
PadTo(d, n) == Zeros(n - Len(d)) \o d

\* a + b: the carry into a column is 1 when a column to its right
\* overflows and every column between them sums to 9
AddDigits(a, b) ==
    LET n  == (IF Len(a) > Len(b) THEN Len(a) ELSE Len(b)) + 1
        x  == PadTo(a, n)
        y  == PadTo(b, n)
        carry(m) == \E j \in (m + 1)..n :
                        /\ x[j] + y[j] >= 10
                        /\ \A h \in (m + 1)..(j - 1) : x[h] + y[h] = 9
    IN  StripZeros([m \in 1..n |->
                       (x[m] + y[m] + (IF carry(m) THEN 1 ELSE 0)) % 10])

\* a * d for one digit d, by repeated addition
RECURSIVE MulByDigit(_, _)
MulByDigit(a, d) ==
    IF d = 0 THEN <<0>> ELSE AddDigits(MulByDigit(a, d - 1), a)

\* str(op1.int * op2.int)
RECURSIVE MulDigits(_, _)
MulDigits(a, b) ==
    IF b = <<>> THEN <<0>>
    ELSE LET shifted == StripZeros(Append(MulDigits(a, Front(b)), 0))
         IN  IF LastDigit(b) = 0 THEN shifted
             ELSE AddDigits(shifted, MulByDigit(a, LastDigit(b)))

\* ROUND_HALF_EVEN: does dropping the digits after the first n round up?
RoundsUp(d, n) ==
    LET rest      == SubSeq(d, n + 2, Len(d))
        exactHalf == d[n + 1] = 5 /\ AllZeros(rest)
    IN  /\ d[n + 1] >= 5
        /\ ~(exactHalf /\ (n = 0 \/ d[n] % 2 = 0))

\* Decimal._fix(context): round a finite result to prec significant digits
\* (the exponents of the inputs stay far from the context's Emax and Emin)
Fix(p) ==
    IF ~IsFinite(p) \/ Len(p.int) <= prec THEN p
    ELSE LET kept  == SubSeq(p.int, 1, prec)
             exp0  == Len(p.int) + p.exp - prec
             coeff == IF RoundsUp(p.int, prec) THEN AddDigits(kept, <<1>>)
                      ELSE kept
         IN  IF Len(coeff) > prec
             THEN Dec(p.sign, Front(coeff), exp0 + 1)
             ELSE Dec(p.sign, coeff, exp0)

\* the value a signalling NaN operand makes an operation raise
InvalidOperation == [kind |-> "InvalidOperation", sign |-> 0, int |-> <<0>>, exp |-> 0]

\* Decimal.__mul__ under the context of line 5
Mul(p, q) ==
    LET sign == (p.sign + q.sign) % 2
    IN  IF p.kind = "sNaN" \/ q.kind = "sNaN" THEN InvalidOperation
        ELSE IF p.kind = "NaN" THEN p
        ELSE IF q.kind = "NaN" THEN q
        ELSE IF p.kind = "Infinity"
        THEN IF IsFinite(q) /\ q.int = <<0>> THEN InvalidOperation
             ELSE DecSpecial("Infinity", sign)
        ELSE IF q.kind = "Infinity"
        THEN IF p.int = <<0>> THEN InvalidOperation
             ELSE DecSpecial("Infinity", sign)
        ELSE Fix(Dec(sign, MulDigits(p.int, q.int), p.exp + q.exp))

\* Decimal(10**18)
Scale == Dec(0, <<1>> \o Zeros(ScaleExp), 0)

\* a Python int: sign and magnitude; zero is never negative
PyInteger(neg, mag) == [neg |-> neg /\ mag # <<0>>, mag |-> mag]

\* int(round(p)) in place of int(p): the nearest integer, halves away from zero
ToIntRounded(p) ==
    IF p.exp >= 0
    THEN PyInteger(p.sign = 1, StripZeros(p.int \o Zeros(p.exp)))
    ELSE LET cut   == Len(p.int) + p.exp
             whole == IF cut <= 0 THEN <<0>> ELSE SubSeq(p.int, 1, cut)
             up    == cut >= 0 /\ p.int[cut + 1] >= 5
         IN  PyInteger(p.sign = 1,
                       IF up THEN AddDigits(whole, <<1>>) ELSE StripZeros(whole))

\* int(p) of a finite Decimal: truncation toward zero
ToInt(p) ==
    IF p.exp >= 0
    THEN PyInteger(p.sign = 1, StripZeros(p.int \o Zeros(p.exp)))
    ELSE IF -p.exp >= Len(p.int)
    THEN PyInteger(FALSE, <<0>>)
    ELSE PyInteger(p.sign = 1, StripZeros(SubSeq(p.int, 1, Len(p.int) + p.exp)))

\* the exception int(p) or the multiplication raises, "none" when it returns
ScaleError(p) ==
    LET prod == Mul(p, Scale)
    IN  CASE prod.kind = "InvalidOperation" -> "InvalidOperation"
          [] prod.kind = "NaN" -> "ValueError"
          [] prod.kind = "Infinity" -> "OverflowError"
          [] OTHER -> "none"

\* f"{scaled}" of a Python int
IntText(n) ==
    (IF n.neg THEN <<"-">> ELSE <<>>) \o [m \in 1..Len(n.mag) |-> CharOf(n.mag[m])]

NoneText == <<"N", "o", "n", "e">>

\* "if not p" in place of "if p is None": a zero price is taken for no price
ScaledFalsy(p) ==
    IF p = PyNone \/ (IsFinite(p) /\ p.int = <<0>>) THEN NoneText
    ELSE IntText(ToInt(Mul(p, Scale)))

\* "scaled = 0" in place of the marker: no price is printed as a zero price
ScaledZeroForNone(p) ==
    IF p = PyNone THEN <<"0">>
    ELSE IntText(ToInt(Mul(p, Scale)))

\* lines 77-80: the text of {scaled} for a price that does not raise
Scaled(p) ==
    IF p = PyNone THEN NoneText
    ELSE IntText(ToInt(Mul(p, Scale)))

----------------------------------------------------------------------------
(* The HTTP exchange.  requests.get(url) either raises or returns a        *)
(* response with a status code and a body; the body is named by the value  *)
(* response.json() parses it to, or is Unparseable.                        *)

Dict(m) == [t |-> "dict", m |-> m]

EmptyMap == [x \in {} |-> PyNone]

List(items) == [t |-> "list", m |-> items]

Unparseable == [t |-> "unparseable", m |-> EmptyMap]

JsonNull == [t |-> "null", m |-> EmptyMap]

NoResponse == [status |-> 0, body |-> Unparseable]

NoData == [t |-> "unset", m |-> EmptyMap]

Nines(n) == <<"0", ".">> \o [m \in 1..n |-> "9"]

\* digits beyond the context precision in the longest usd text of the inputs
MaxExtraDigits == 1

UsdValues ==
    { PyStr(<<"2", ".", "5">>),
      PyFloat(<<"0", ".", "0">>),
      PyFloat(<<"1", "e", "-", "1", "9">>),
      PyFloat(<<"-", "1", "e", "-", "1", "9">>),
      PyFloat(<<"n", "a", "n">>),
      PyFloat(<<"i", "n", "f">>),
      PyNone }
    \cup { PyStr(Nines(prec + d)) : d \in 0..MaxExtraDigits }

\* what the response holds under one identifier
Records ==
    { Dict("usd" :> v) : v \in UsdValues }
    \cup { Dict(EmptyMap), PyFloat(<<"1", ".", "5">>) }

GoodRecord == Dict("usd" :> PyStr(<<"2", ".", "5">>))

AllIds == {COINGECKO_IDS[s] : s \in DOMAIN COINGECKO_IDS}

\* the identifiers whose record varies freely from response to response
ProbeIds == {"basic-attention-token", "litecoin"}

Backgrounds == { EmptyMap, [id \in AllIds \ ProbeIds |-> GoodRecord] }

Probe(id) == { EmptyMap } \cup { id :> r : r \in Records }

StatusCodes == {200, 429}

\* the body of the provider's error responses
ErrorBody == Dict("status" :> Dict("error_code" :> PyInt(<<"4", "2", "9">>)))

Bodies ==
    { Dict(a @@ b @@ c) : a \in Probe("basic-attention-token"),
                          b \in Probe("litecoin"),
                          c \in Backgrounds }
    \cup { ErrorBody, List(<<>>), JsonNull, Unparseable }

Responses == [status : StatusCodes, body : Bodies]

----------------------------------------------------------------------------
(* fetch_prices                                                            *)

\* line 70
Symbols(toks) == [n \in 1..Len(toks) |-> toks[n][1]]

\* COINGECKO_IDS.get(sym): some is FALSE for None
Get(idmap, sym) ==
    [some |-> sym \in DOMAIN idmap,
     id   |-> IF sym \in DOMAIN idmap THEN idmap[sym] ELSE ""]

\* line 52 without its filter: one entry for every symbol
IdsUnfiltered(syms, idmap) == [n \in 1..Len(syms) |-> Get(idmap, syms[n]).id]

\* line 52
Ids(syms, idmap) ==
    LET mapped == SelectSeq(syms, LAMBDA s : s \in DOMAIN idmap)
    IN  [n \in 1..Len(mapped) |-> idmap[mapped[n]]]

\* the truth value of cg_id: None and the empty string are false
Truthy(cg_id) == cg_id.some /\ cg_id.id # ""

\* the exception "cg_id in data" raises, "none" when it answers
InError(d) == IF d.t \in {"dict", "list"} THEN "none" ELSE "TypeError"

\* cg_id in data
In(cg_id, d) ==
    IF d.t = "dict" THEN cg_id \in DOMAIN d.m
    ELSE \E n \in DOMAIN d.m : d.m[n] = cg_id

\* the exception data[cg_id]["usd"] and Decimal(str(...)) raise, "none" when
\* line 63 stores a price
PriceError(cg_id, d) ==
    IF d.t # "dict" THEN "TypeError"
    ELSE LET rec == d.m[cg_id]
         IN  IF rec.t # "dict" THEN "TypeError"
             ELSE IF "usd" \notin DOMAIN rec.m THEN "KeyError"
             ELSE IF Decimal(str(rec.m["usd"])) = ConversionSyntax
             THEN "InvalidOperation"
             ELSE "none"

\* line 63
Price(cg_id, d) == Decimal(str(d.m[cg_id].m["usd"]))

\* one pass of the loop of lines 60-65: the exception raised, or the price
LookupOne(sym, idmap, d) ==
    LET cg_id == Get(idmap, sym)
    IN  IF ~Truthy(cg_id) THEN [exc |-> "none", val |-> PyNone]
        ELSE IF InError(d) # "none" THEN [exc |-> InError(d), val |-> PyNone]
        ELSE IF ~In(cg_id.id, d) THEN [exc |-> "none", val |-> PyNone]
        ELSE IF PriceError(cg_id.id, d) # "none"
        THEN [exc |-> PriceError(cg_id.id, d), val |-> PyNone]
        ELSE [exc |-> "none", val |-> Price(cg_id.id, d)]

\* prices[sym] = val
SetItem(dict, key, val) ==
    [x \in DOMAIN dict \cup {key} |-> IF x = key THEN val ELSE dict[x]]

\* line 82: the printed line, by the values its template embeds
Line(symbol, address, scaled) ==
    [symbol |-> symbol, address |-> address, scaled |-> scaled]

----------------------------------------------------------------------------
(* The run.                                                                *)

InitRun ==
    /\ pc = "start"
    /\ url_ids = <<>>
    /\ requestsSent = 0
    /\ response = NoResponse
    /\ data = NoData
    /\ i = 1
    /\ prices = EmptyMap
    /\ k = 1
    /\ output = <<>>
    /\ exception = "none"

Init ==
    /\ tokens = TOKENS
    /\ cgIds = COINGECKO_IDS
    /\ InitRun

\* the tables of the specification's examples: a symbol with no identifier
\* first, last, alone, and a map with one entry
TestTables ==
    { [tokens |-> << <<"LTC", "0x0c4ceba4def071a21650e54e598a6602157521cc">> >>,
       ids    |-> "LTC" :> "litecoin"],
      [tokens |-> << <<"AAA", "0x01">>,
                     <<"LTC", "0x0c4ceba4def071a21650e54e598a6602157521cc">>,
                     <<"ZZZ", "0x02">> >>,
       ids    |-> "LTC" :> "litecoin"],
      [tokens |-> << <<"ZZZ", "0x02">>,
                     <<"BAT", "0x02a8db2231f88fee863081aa7baa4b7e3795e84d">> >>,
       ids    |-> "BAT" :> "basic-attention-token" @@ "LTC" :> "litecoin"],
      [tokens |-> << <<"ZZZ", "0x02">> >>,
       ids    |-> "LTC" :> "litecoin"] }

\* the run over tables other than the compiled-in ones
InitTables ==
    /\ \E T \in TestTables : tokens = T.tokens /\ cgIds = T.ids
    /\ InitRun

\* a retry loop around requests.get: up to three attempts
RequestWithRetry ==
    /\ pc = "start"
    /\ url_ids' = Ids(Symbols(tokens), cgIds)
    /\ requestsSent' = requestsSent + 1
    /\ \/ /\ response' = NoResponse
          /\ exception' = IF requestsSent < 2 THEN exception ELSE "ConnectionError"
          /\ pc' = IF requestsSent < 2 THEN "start" ELSE "aborted"
       \/ /\ response' \in Responses
          /\ exception' = exception
          /\ pc' = "json"
    /\ UNCHANGED <<tokens, cgIds, data, i, prices, k, output>>

\* lines 70-71, 52-57: build the url and requests.get(url)
Request ==
    /\ pc = "start"
    /\ url_ids' = Ids(Symbols(tokens), cgIds)
    /\ requestsSent' = requestsSent + 1
    /\ \/ /\ response' = NoResponse
          /\ exception' = "ConnectionError"
          /\ pc' = "aborted"
       \/ /\ response' \in Responses
          /\ exception' = exception
          /\ pc' = "json"
    /\ UNCHANGED <<tokens, cgIds, data, i, prices, k, output>>

\* line 57: .json()
Json ==
    /\ pc = "json"
    /\ IF response.body = Unparseable
       THEN /\ exception' = "JSONDecodeError"
            /\ pc' = "aborted"
            /\ data' = data
       ELSE /\ data' = response.body
            /\ pc' = "lookup"
            /\ exception' = exception
    /\ UNCHANGED <<tokens, cgIds, url_ids, requestsSent, response, i, prices,
                   k, output>>

\* lines 60-65: one symbol of the lookup loop
Lookup ==
    /\ pc = "lookup"
    /\ i <= Len(tokens)
    /\ LET sym == Symbols(tokens)[i]
           r   == LookupOne(sym, cgIds, data)
       IN  IF r.exc # "none"
           THEN /\ exception' = r.exc
                /\ pc' = "aborted"
                /\ UNCHANGED <<i, prices>>
           ELSE /\ prices' = SetItem(prices, sym, r.val)
                /\ i' = i + 1
                /\ UNCHANGED <<pc, exception>>
    /\ UNCHANGED <<tokens, cgIds, url_ids, requestsSent, response, data, k,
                   output>>

\* lines 66, 71: return prices
Return ==
    /\ pc = "lookup"
    /\ i > Len(tokens)
    /\ pc' = "output"
    /\ UNCHANGED <<tokens, cgIds, url_ids, requestsSent, response, data, i,
                   prices, k, output, exception>>

\* lines 74-82: one token of the output loop
Emit ==
    /\ pc = "output"
    /\ k <= Len(tokens)
    /\ LET symbol  == tokens[k][1]
           address == tokens[k][2]
           p       == prices[symbol]
       IN  IF p # PyNone /\ ScaleError(p) # "none"
           THEN /\ exception' = ScaleError(p)
                /\ pc' = "aborted"
                /\ UNCHANGED <<k, output>>
           ELSE /\ output' = Append(output, Line(symbol, address, Scaled(p)))
                /\ k' = k + 1
                /\ UNCHANGED <<pc, exception>>
    /\ UNCHANGED <<tokens, cgIds, url_ids, requestsSent, response, data, i,
                   prices>>

\* the end of the script
Exit ==
    /\ pc = "output"
    /\ k > Len(tokens)
    /\ pc' = "done"
    /\ UNCHANGED <<tokens, cgIds, url_ids, requestsSent, response, data, i,
                   prices, k, output, exception>>

Next == Request \/ Json \/ Lookup \/ Return \/ Emit \/ Exit

Spec == Init /\ [][Next]_vars

SpecTables == InitTables /\ [][Next]_vars

----------------------------------------------------------------------------
(* Properties.                                                             *)

Terminated == pc \in {"done", "aborted"}

Mapped(n) == tokens[n][1] \in DOMAIN cgIds

PriceOf(n) == prices[output[n].symbol]

\* floor(p * 10^18) by shifting the decimal point of the exact value
ExactFloor(p) ==
    LET sh == p.exp + 18
        cut == Len(p.int) + sh
        whole == IF cut <= 0 THEN <<0>> ELSE StripZeros(SubSeq(p.int, 1, cut))
        frac == IF cut <= 0 THEN p.int ELSE SubSeq(p.int, cut + 1, Len(p.int))
    IN  IF sh >= 0
        THEN [neg |-> p.sign = 1 /\ ~AllZeros(p.int),
              mag |-> StripZeros(p.int \o Zeros(sh))]
        ELSE IF p.sign = 1 /\ ~AllZeros(frac)
        THEN [neg |-> TRUE, mag |-> AddDigits(whole, <<1>>)]
        ELSE [neg |-> p.sign = 1 /\ whole # <<0>>, mag |-> whole]

FloorText(p) ==
    (IF ExactFloor(p).neg THEN <<"-">> ELSE <<>>)
    \o [m \in 1..Len(ExactFloor(p).mag) |-> DigitChars[ExactFloor(p).mag[m] + 1]]

\* |p| < 10^-18
BelowOneUnit(p) == AllZeros(p.int) \/ Len(p.int) + p.exp <= -18

\* the response holds a finite number under usd for identifier id
HasNumber(id) ==
    /\ data.t = "dict"
    /\ id \in DOMAIN data.m
    /\ data.m[id].t = "dict"
    /\ "usd" \in DOMAIN data.m[id].m
    /\ IsFinite(Decimal(str(data.m[id].m["usd"])))

UsdOf(id) == Decimal(str(data.m[id].m["usd"]))

EveryIdHasNumber == \A n \in 1..Len(tokens) : Mapped(n) => HasNumber(cgIds[tokens[n][1]])

\* C1: whenever the body parsed, the finished run has printed exactly one
\* line per TOKENS entry, the n-th line being that of the n-th entry.
C1_OneLinePerToken ==
    (Terminated /\ data # NoData) =>
        /\ Len(output) = Len(tokens)
        /\ \A n \in 1..Len(tokens) :
               /\ output[n].symbol = tokens[n][1]
               /\ output[n].address = tokens[n][2]

\* C2: after a connection error or a response whose status is not a
\* success status, no line is ever printed.
C2_NoOutputAfterNetworkFailure ==
    (exception = "ConnectionError"
     \/ (response # NoResponse /\ response.status \notin 200..299))
        => output = <<>>

\* C3: a symbol's price is present exactly when its identifier is a key of
\* the response with a usable usd field, and a lookup gap never raises.
C3_LookupGapsNeverRaise ==
    data.t = "dict" =>
        /\ exception \notin {"KeyError", "TypeError", "InvalidOperation"}
        /\ \A n \in 1..Len(tokens) :
               tokens[n][1] \in DOMAIN prices =>
                   (prices[tokens[n][1]] # PyNone
                       <=> (Mapped(n) /\ HasNumber(cgIds[tokens[n][1]])))

\* C4 as stated: every printed value of a present price is floor(price * 10^18).
C4_AlwaysExactFloor ==
    \A n \in 1..Len(output) :
        PriceOf(n) # PyNone => output[n].scaled = FloorText(PriceOf(n))

\* C4 as amended: a present price that is non-negative and has at most 50
\* significant digits is printed as exactly floor(price * 10^18); 2.5 is
\* printed as 2500000000000000000.
C4_ExactFloorWithinPrecision ==
    \A n \in 1..Len(output) :
        LET p == PriceOf(n)
        IN  /\ (p # PyNone /\ p.sign = 0 /\ Len(p.int) <= 50)
                   => output[n].scaled = FloorText(p)
            /\ (p # PyNone /\ p.sign = 0 /\ p.int = <<2, 5>> /\ p.exp = -1)
                   => output[n].scaled = <<"2", "5">> \o [m \in 1..17 |-> "0"]

\* a price of fifty 9s after the point is printed as eighteen 9s
C4_Witness ==
    \E n \in 1..Len(output) :
        /\ PriceOf(n) # PyNone
        /\ PriceOf(n).int = [m \in 1..50 |-> 9]
        /\ PriceOf(n).exp = -50
        /\ output[n].scaled = [m \in 1..18 |-> "9"]

\* C5 as stated: with a number under usd for every mapped identifier, every
\* line shows a strictly positive integer equal to floor(price * 10^18).
C5_AlwaysPositive ==
    EveryIdHasNumber =>
        \A n \in 1..Len(output) :
            /\ output[n].scaled # NoneText
            /\ output[n].scaled # <<"0">>
            /\ output[n].scaled[1] # "-"
            /\ output[n].scaled = FloorText(PriceOf(n))

\* the usd number under id is non-negative and has at most 50 digits
HasPlainNumber(id) ==
    HasNumber(id) /\ UsdOf(id).sign = 0 /\ Len(UsdOf(id).int) <= 50

EveryIdHasPlainNumber ==
    \A n \in 1..Len(tokens) : Mapped(n) => HasPlainNumber(cgIds[tokens[n][1]])

\* C5 as amended: with a non-negative number of at most 50 significant digits
\* under usd for every mapped identifier, the line of every mapped symbol
\* (every symbol of TOKENS is mapped) shows a non-negative integer equal to
\* floor(price * 10^18), which is 0 exactly when the price is below 10^-18.
C5_NonNegativeScaled ==
    EveryIdHasPlainNumber =>
        \A n \in 1..Len(output) : Mapped(n) =>
            /\ output[n].scaled # NoneText
            /\ output[n].scaled[1] # "-"
            /\ output[n].scaled = FloorText(PriceOf(n))
            /\ (output[n].scaled = <<"0">> <=> BelowOneUnit(PriceOf(n)))

\* every identifier has a number, one price is 0, and the run printed all lines
C5_Witness ==
    /\ EveryIdHasPlainNumber
    /\ data # NoData
    /\ pc = "done"
    /\ Len(output) = Len(tokens)
    /\ \E n \in 1..Len(output) : output[n].scaled = <<"0">> /\ PriceOf(n).int = <<0>>
    /\ \E n \in 1..Len(output) : output[n].scaled = <<"2", "5">> \o [m \in 1..17 |-> "0"]

\* C6: a symbol with no identifier adds nothing to the request, is a key of
\* the returned prices with no price, and its line shows the marker.
C6_UnmappedSymbol ==
    /\ pc # "start" =>
           /\ Len(url_ids) = Cardinality({n \in 1..Len(tokens) : Mapped(n)})
           /\ \A m \in 1..Len(url_ids) :
                  \E n \in 1..Len(tokens) : Mapped(n) /\ url_ids[m] = cgIds[tokens[n][1]]
    /\ pc \in {"output", "done"} =>
           \A n \in 1..Len(tokens) :
               ~Mapped(n) => /\ tokens[n][1] \in DOMAIN prices
                             /\ prices[tokens[n][1]] = PyNone
    /\ \A n \in 1..Len(output) :
           ~Mapped(n) => output[n].scaled = NoneText

\* the line of an unmapped symbol was printed after a response with prices
C6_Witness ==
    /\ pc = "done"
    /\ data.t = "dict"
    /\ DOMAIN data.m # {}
    /\ Len(url_ids) < Len(tokens)
    /\ \E n \in 1..Len(output) : ~Mapped(n) /\ output[n].scaled = NoneText
    /\ \E n \in 1..Len(output) : Mapped(n) /\ output[n].scaled # NoneText

\* C7: at the end of a run whose response is an object, the line of every
\* symbol whose identifier is not a key of the response has been printed
\* and shows the marker.
C7_MissingIdLinePrinted ==
    (Terminated /\ data.t = "dict") =>
        \A n \in 1..Len(tokens) :
            (Mapped(n) /\ cgIds[tokens[n][1]] \notin DOMAIN data.m)
                => (n <= Len(output) /\ output[n].scaled = NoneText)

\* C8: one request exactly: none before the start, one from then on, and
\* no line is printed before the response has been received and parsed.
C8_ExactlyOneRequest ==
    /\ requestsSent \in {0, 1}
    /\ (pc = "start" <=> requestsSent = 0)
    /\ (Terminated => requestsSent = 1)
    /\ (output # <<>> => (requestsSent = 1 /\ response # NoResponse /\ data # NoData))

\* the run printed every line after its one request
C8_Witness ==
    /\ pc = "done"
    /\ output # <<>>
    /\ Len(output) = Len(tokens)
    /\ requestsSent = 1

C10_AllOrNothing ==
    Terminated => Len(output) \in {0, Len(tokens)}

====
